---- MODULE Spec2Model ----
(***************************************************************************)
(* Model of gzlb/pdfgen: the DATA-sheet readers, the multi-file combiner,  *)
(* the value formatter and the two PDF renderers (src/main.py,             *)
(* src/test.py).                                                           *)
(*                                                                         *)
(* Python strings are TLA+ strings; None and "" (both falsy) are "".       *)
(* A raw cell value is a record [t, n, s]: t its Python type, n its number *)
(* (floats are counted in eighths, which binary floating point holds       *)
(* exactly; a datetime is the number yyyymmdd), s its text.                *)
(* A falsy column width (None or 0) is 0.                                  *)
(***************************************************************************)
EXTENDS Integers, Sequences, FiniteSets, TLC

\* ------------------------------------------------------------------ bounds
MaxFiles == 3
MaxRows == 2
MaxCols == 2
MaxDims == 2
MaxSeed == 7

\* ------------------------------------------------- constants of the program
FullFallbackWidth == 60
FullWidthScale == 5
BasicDefaultWidth == 10
BasicWidthScale == 7
BasicFallbackWidth == 70
FloatBoundary == 10000000

\* --------------------------------------------------------------- utilities
Min(a, b) == IF a < b THEN a ELSE b
Max(a, b) == IF a > b THEN a ELSE b
Ch(s, k) == SubSeq(s, k, k)
\* s[1:]
PyTail(s) == IF Len(s) = 0 THEN s ELSE Tail(s)
\* s[:n]
PyPrefix(s, n) == SubSeq(s, 1, Min(n, Len(s)))
\* s[-n:]
PySuffix(s, n) == SubSeq(s, Max(1, Len(s) - n + 1), Len(s))
\* [x] * n
Repeat(x, n) == [k \in 1..Max(n, 0) |-> x]
RECURSIVE SumSeq(_)
SumSeq(s) == IF Len(s) = 0 THEN 0 ELSE Head(s) + SumSeq(Tail(s))

V(t, n, s) == [t |-> t, n |-> n, s |-> s]
NoneValue == V("null", 0, "")

\* ------------------------------------------------ workbooks (the file system)
(* A workbook file as openpyxl loads it: whether it holds a DATA sheet, the *)
(* sheet's rows and columns (iter_rows yields a rectangle; an empty sheet   *)
(* yields no row) and the number of declared column dimensions.             *)
Workbooks ==
    {[hasData |-> FALSE, nrows |-> 0, ncols |-> 0, ndims |-> 0, seed |-> 0]}
    \cup {[hasData |-> TRUE, nrows |-> 0, ncols |-> 0, ndims |-> d, seed |-> 0] :
            d \in 0..MaxDims}
    \cup {[hasData |-> TRUE, nrows |-> r, ncols |-> c, ndims |-> d, seed |-> 0] :
            r \in 1..MaxRows, c \in 1..MaxCols, d \in 0..MaxDims}

\* The values a sheet's data cells hold, by turns.
SeedValues ==
    <<V("float", 9877, ""), V("int", 42, ""), V("str", 0, "n/a"), NoneValue,
      V("float", 8 * FloatBoundary + 4, ""), V("float", -3, ""), V("bool", 1, ""),
      V("str", 0, "")>>

CellValue(f, r, c) ==
    IF r = 1 THEN V("str", 0, "Name")
    ELSE SeedValues[((f.seed + r + c) % Len(SeedValues)) + 1]

\* The cell at row r, column c (1-based) of the DATA sheet.
WsCell(f, r, c) ==
    IF r = 1
    THEN [value |-> CellValue(f, r, c), fill_type |-> "rgb", rgb |-> "FF4F81BD",
          bold |-> TRUE, italic |-> FALSE, horizontal |-> "center"]
    ELSE IF (r + c) % 2 = 0
    THEN [value |-> CellValue(f, r, c), fill_type |-> "theme", rgb |-> "",
          bold |-> FALSE, italic |-> TRUE, horizontal |-> ""]
    ELSE [value |-> CellValue(f, r, c), fill_type |-> "rgb", rgb |-> "00FFFF00",
          bold |-> FALSE, italic |-> FALSE, horizontal |-> "justify"]

\* ws.iter_rows()
IterRows(f) == [r \in 1..f.nrows |-> [c \in 1..f.ncols |-> WsCell(f, r, c)]]

\* ws.merged_cells.ranges, each as str(range)
MergedCells(f) == IF f.nrows >= 1 /\ f.ncols >= 2 THEN <<"A1:B1">> ELSE <<>>

\* ws.column_dimensions: the declared widths, 0 where none is set
ColumnDimensions(f) ==
    [k \in 1..f.ndims |-> IF k % 2 = 0 THEN 0 ELSE 10 + 2 * k + f.nrows + f.ncols]

\* str.upper() on the alignments a sheet holds
Upper(s) ==
    CASE s = "left" -> "LEFT"
      [] s = "center" -> "CENTER"
      [] s = "right" -> "RIGHT"
      [] s = "justify" -> "JUSTIFY"
      [] OTHER -> s

\* ------------------------------------- src/test.py: read_data_with_full_style
bg_color(cell) ==
    IF cell.fill_type = "rgb" THEN "#" \o PySuffix(cell.rgb, 6) ELSE ""

CellStyle(cell) ==
    [bg_color |-> bg_color(cell),
     bold |-> cell.bold,
     italic |-> cell.italic,
     align |-> Upper(IF cell.horizontal # "" THEN cell.horizontal ELSE "left")]

\* A reader that leaves out the cells that hold no value.
ReadValues_skip_none(f) ==
    LET rows == IterRows(f)
        kept(row) == SelectSeq(row, LAMBDA cell : cell.value.t # "null")
    IN [r \in 1..Len(rows) |-> [c \in 1..Len(kept(rows[r])) |-> kept(rows[r])[c].value]]

ReadValues(f) ==
    LET rows == IterRows(f)
    IN [r \in 1..Len(rows) |-> [c \in 1..Len(rows[r]) |-> rows[r][c].value]]

ReadStyles(f) ==
    LET rows == IterRows(f)
    IN [r \in 1..Len(rows) |-> [c \in 1..Len(rows[r]) |-> CellStyle(rows[r][c])]]

ReadMerges(f) == MergedCells(f)

DeclaredWidths(f) ==
    LET dims == ColumnDimensions(f)
    IN [k \in 1..Len(dims) |->
          IF dims[k] # 0 THEN dims[k] * FullWidthScale ELSE FullFallbackWidth]

FillWidths(widths, values) ==
    LET n_cols == IF Len(values) > 0 THEN Len(values[1]) ELSE 0
    IN IF Len(widths) < n_cols
       THEN widths \o Repeat(FullFallbackWidth, n_cols - Len(widths))
       ELSE widths

\* A reader that takes a workbook without a DATA sheet for an empty sheet.
read_data_with_full_style_skip_missing(f) ==
    [raised |-> FALSE, closed |-> TRUE, values |-> ReadValues(f),
     styles |-> ReadStyles(f), merges |-> ReadMerges(f),
     widths |-> FillWidths(DeclaredWidths(f), ReadValues(f))]

(* The reader's outcome: raised with the workbook left open when the sheet  *)
(* is absent (line 12 raises before any close), else the four results with  *)
(* the workbook closed (line 57).                                           *)
read_data_with_full_style(f) ==
    IF ~f.hasData
    THEN [raised |-> TRUE, closed |-> FALSE, values |-> <<>>, styles |-> <<>>,
          merges |-> <<>>, widths |-> <<>>]
    ELSE [raised |-> FALSE, closed |-> TRUE, values |-> ReadValues(f),
          styles |-> ReadStyles(f), merges |-> ReadMerges(f),
          widths |-> FillWidths(DeclaredWidths(f), ReadValues(f))]

\* ----------------------------------------- src/test.py: combine_multiple_xlsm
\* The accumulators as lines 63-67 set them.
EmptyCombined ==
    [values |-> <<>>, styles |-> <<>>, merges |-> <<>>, widths |-> <<>>,
     headers_added |-> FALSE]

\* A combiner that does not skip the header row of the later files.
combine_step_keep_headers(acc, snap) ==
    [values |-> acc.values \o snap.values,
     styles |-> acc.styles \o snap.styles,
     merges |-> acc.merges \o snap.merges,
     widths |-> IF acc.headers_added THEN acc.widths ELSE snap.widths,
     headers_added |-> TRUE]

\* A combiner that takes the column widths of every file it reads.
combine_step_last_widths(acc, snap) ==
    [values |-> acc.values \o (IF acc.headers_added THEN PyTail(snap.values) ELSE snap.values),
     styles |-> acc.styles \o (IF acc.headers_added THEN PyTail(snap.styles) ELSE snap.styles),
     merges |-> acc.merges \o snap.merges,
     widths |-> snap.widths,
     headers_added |-> TRUE]

\* A combiner that skips the header row of the later files' values only.
combine_step_styles_keep_header(acc, snap) ==
    [values |-> acc.values \o (IF acc.headers_added THEN PyTail(snap.values) ELSE snap.values),
     styles |-> acc.styles \o snap.styles,
     merges |-> acc.merges \o snap.merges,
     widths |-> IF acc.headers_added THEN acc.widths ELSE snap.widths,
     headers_added |-> TRUE]

\* One iteration of the loop (lines 71-81) on the snapshot read at line 70.
combine_step(acc, snap) ==
    IF ~acc.headers_added
    THEN [values |-> acc.values \o snap.values,
          styles |-> acc.styles \o snap.styles,
          merges |-> acc.merges \o snap.merges,
          widths |-> snap.widths,
          headers_added |-> TRUE]
    ELSE [values |-> acc.values \o PyTail(snap.values),
          styles |-> acc.styles \o PyTail(snap.styles),
          merges |-> acc.merges \o snap.merges,
          widths |-> acc.widths,
          headers_added |-> acc.headers_added]

\* -------------------------------------- src/test.py: excel_range_to_indices
\* openpyxl.utils.range_boundaries on the ranges a sheet of Workbooks holds:
\* (min_col, min_row, max_col, max_row), 1-based.
range_boundaries(range_str) ==
    CASE range_str = "A1:B1" -> <<1, 1, 2, 1>>
      [] OTHER -> <<1, 1, 1, 1>>

excel_range_to_indices(range_str) ==
    LET b == range_boundaries(range_str)
    IN <<b[1] - 1, b[2] - 1, b[3] - 1, b[4] - 1>>

\* ------------------------------------ src/test.py: generate_full_styled_pdf
Rule(cmd, c1, r1, c2, r2, arg) ==
    [cmd |-> cmd, c1 |-> c1, r1 |-> r1, c2 |-> c2, r2 |-> r2, arg |-> arg]

HexDigits == {"0", "1", "2", "3", "4", "5", "6", "7", "8", "9",
              "a", "b", "c", "d", "e", "f", "A", "B", "C", "D", "E", "F"}
DecDigits == {"0", "1", "2", "3", "4", "5", "6", "7", "8", "9"}
AllIn(s, chars) == \A k \in 1..Len(s) : Ch(s, k) \in chars

(* colors.HexColor(val) on a string: after "#" (or "0x") the rest is read  *)
(* base 16, else the whole is read base 10; int() raises ValueError on an  *)
(* empty or non-numeric text. TRUE when a colour comes back.               *)
HexColorParses(val) ==
    IF PyPrefix(val, 1) = "#"
    THEN Len(val) > 1 /\ AllIn(PyTail(val), HexDigits)
    ELSE IF PyPrefix(val, 2) \in {"0x", "0X"}
    THEN Len(val) > 2 /\ AllIn(SubSeq(val, 3, Len(val)), HexDigits)
    ELSE Len(val) > 0 /\ AllIn(val, DecDigits)

\* Lines 118-122: the BACKGROUND rule, or nothing when the bare except
\* swallows the parse error.
BackgroundRules(cell_style, c, r) ==
    IF cell_style.bg_color # "" /\ HexColorParses(cell_style.bg_color)
    THEN <<Rule("BACKGROUND", c, r, c, r, cell_style.bg_color)>>
    ELSE <<>>

\* Lines 124-127
FontRules(cell_style, c, r) ==
    IF cell_style.bold THEN <<Rule("FONTNAME", c, r, c, r, "Helvetica-Bold")>>
    ELSE IF cell_style.italic THEN <<Rule("FONTNAME", c, r, c, r, "Helvetica-Oblique")>>
    ELSE <<>>

\* Lines 129-130
AlignRules(cell_style, c, r) ==
    IF cell_style.align \in {"LEFT", "CENTER", "RIGHT"}
    THEN <<Rule("ALIGN", c, r, c, r, cell_style.align)>>
    ELSE <<>>

\* The body of the per-cell loop for the cell at 0-based (c, r).
CellRules(cell_style, c, r) ==
    BackgroundRules(cell_style, c, r) \o FontRules(cell_style, c, r)
        \o AlignRules(cell_style, c, r)

RECURSIVE Flatten(_)
Flatten(ss) == IF Len(ss) = 0 THEN <<>> ELSE Head(ss) \o Flatten(Tail(ss))

\* Lines 114-130 when every styles[r][c] exists: rows outermost.
PerCellRules(styles, n_rows, n_cols) ==
    Flatten([r \in 1..n_rows |->
        Flatten([c \in 1..n_cols |-> CellRules(styles[r][c], c - 1, r - 1)])])

\* styles[r][c] raises IndexError for some cell of range(n_rows) x range(n_cols)
StyleIndexError(styles, n_rows, n_cols) ==
    \E r \in 1..n_rows : r > Len(styles) \/ Len(styles[r]) < n_cols

SpanRules(merged_ranges) ==
    [k \in 1..Len(merged_ranges) |->
        LET ix == excel_range_to_indices(merged_ranges[k])
        IN Rule("SPAN", ix[1], ix[2], ix[3], ix[4], "")]

GridRule == Rule("GRID", 0, 0, -1, -1, "grey")

HeaderRules ==
    <<Rule("BACKGROUND", 0, 0, -1, 0, "lightgrey"),
      Rule("FONTNAME", 0, 0, -1, 0, "Helvetica-Bold"),
      Rule("ALIGN", 0, 0, -1, 0, "CENTER")>>

\* reportlab's settings that decide what Table() does with a table it cannot
\* lay out as given (rl_config.emptyTableAction, rl_config.allowShortTableRows).
RlConfigs ==
    [emptyTableAction : {"error", "indicate", "ignore"}, allowShortTableRows : BOOLEAN]

MaxRowLen(data) ==
    IF Len(data) = 0 THEN 0
    ELSE CHOOSE m \in {Len(data[r]) : r \in 1..Len(data)} :
            \A r \in 1..Len(data) : Len(data[r]) <= m

(* Table(data, colWidths=...) as called at line 105 (and main.py line 54):  *)
(* "ok", "ValueError", or "degenerate" when an empty table is replaced by a *)
(* placeholder flowable that is no Table (it has no setStyle).              *)
TableCtor(data, colWidths, cfg) ==
    LET nrows == Len(data)
        ncols == IF nrows > 0 THEN MaxRowLen(data) ELSE Len(colWidths)
    IN IF nrows = 0 \/ ncols = 0
       THEN IF cfg.emptyTableAction = "error" THEN "ValueError" ELSE "degenerate"
       ELSE IF Len(colWidths) # ncols /\ ~cfg.allowShortTableRows THEN "ValueError"
       ELSE IF (\E r \in 1..nrows : Len(data[r]) # ncols) /\ ~cfg.allowShortTableRows
       THEN "ValueError"
       ELSE "ok"

Outcome(err, colWidths, tstyle, built) ==
    [err |-> err, colWidths |-> colWidths, tstyle |-> tstyle, built |-> built]

\* The list handed to Table as colWidths (line 105).
TableColWidths(values, col_widths) ==
    LET n_cols == IF Len(values) > 0 THEN Len(values[1]) ELSE 0
    IN PyPrefix(col_widths, n_cols)

\* A renderer without the try/except around colors.HexColor: the first
\* colour that does not parse ends the call.
generate_full_styled_pdf_no_except(values, styles, merged_ranges, col_widths, cfg) ==
    LET n_rows == Len(values)
        n_cols == IF n_rows > 0 THEN Len(values[1]) ELSE 0
        colWidths == TableColWidths(values, col_widths)
        table == TableCtor(values, colWidths, cfg)
        tstyle == <<GridRule>> \o SpanRules(merged_ranges)
        unparsed == \E r \in 1..n_rows : \E c \in 1..n_cols :
                        styles[r][c].bg_color # "" /\ ~HexColorParses(styles[r][c].bg_color)
    IN IF table = "ValueError" THEN Outcome("ValueError", colWidths, <<>>, FALSE)
       ELSE IF StyleIndexError(styles, n_rows, n_cols)
       THEN Outcome("IndexError", colWidths, <<>>, FALSE)
       ELSE IF unparsed THEN Outcome("ValueError", colWidths, <<>>, FALSE)
       ELSE IF table = "degenerate"
       THEN Outcome("AttributeError", colWidths, <<>>, FALSE)
       ELSE Outcome("none", colWidths,
                    tstyle \o PerCellRules(styles, n_rows, n_cols) \o HeaderRules, TRUE)

generate_full_styled_pdf(values, styles, merged_ranges, col_widths, cfg) ==
    LET n_rows == Len(values)
        n_cols == IF n_rows > 0 THEN Len(values[1]) ELSE 0
        colWidths == TableColWidths(values, col_widths)
        table == TableCtor(values, colWidths, cfg)
        tstyle == <<GridRule>> \o SpanRules(merged_ranges)
    IN IF table = "ValueError" THEN Outcome("ValueError", colWidths, <<>>, FALSE)
       ELSE IF StyleIndexError(styles, n_rows, n_cols)
       THEN Outcome("IndexError", colWidths, <<>>, FALSE)
       ELSE IF table = "degenerate"
       THEN Outcome("AttributeError", colWidths, <<>>, FALSE)
       ELSE Outcome("none", colWidths,
                    tstyle \o PerCellRules(styles, n_rows, n_cols) \o HeaderRules, TRUE)

\* ------------------------------------------------- src/main.py: format_value
DigitChars == "0123456789"

RECURSIVE DecStr(_)
\* str(n) for n >= 0
DecStr(n) ==
    IF n < 10 THEN Ch(DigitChars, n + 1)
    ELSE DecStr(n \div 10) \o Ch(DigitChars, (n % 10) + 1)

RECURSIVE ZeroPad(_, _)
ZeroPad(text, width) == IF Len(text) >= width THEN text ELSE ZeroPad("0" \o text, width)

RECURSIVE Grouped(_)
\* the "," of a format spec: n >= 0 with thousands separators
Grouped(n) ==
    IF n < 1000 THEN DecStr(n)
    ELSE Grouped(n \div 1000) \o "," \o ZeroPad(DecStr(n % 1000), 3)

\* num/den rounded to an integer, ties to even, as float formatting rounds a
\* value binary floating point holds exactly
RoundHalfEven(num, den) ==
    LET q == num \div den
        twice == 2 * (num % den)
    IN IF twice > den \/ (twice = den /\ q % 2 = 1) THEN q + 1 ELSE q

Abs(n) == IF n < 0 THEN -n ELSE n

\* f"{value:,.2f}" of the float n/8: the whole part, and the eighths rounded
\* to hundredths (at most 88, so nothing carries into the whole part)
FormatTwoDecimals(n) ==
    LET whole == Abs(n) \div 8
        cents == RoundHalfEven((Abs(n) % 8) * 100, 8)
    IN (IF n < 0 THEN "-" ELSE "") \o Grouped(whole) \o "." \o ZeroPad(DecStr(cents), 2)

\* f"{value:,.0f}" of the float n/8
FormatNoDecimals(n) ==
    (IF n < 0 THEN "-" ELSE "") \o Grouped(RoundHalfEven(Abs(n), 8))

\* value.strftime("%Y-%m-%d") of the date yyyymmdd
Strftime(n) ==
    ZeroPad(DecStr(n \div 10000), 4) \o "-" \o ZeroPad(DecStr((n \div 100) % 100), 2)
        \o "-" \o ZeroPad(DecStr(n % 100), 2)

\* str(value) of what is neither a datetime, a float nor None
PyStr(value) ==
    CASE value.t = "str" -> value.s
      [] value.t = "int" -> (IF value.n < 0 THEN "-" ELSE "") \o DecStr(Abs(value.n))
      [] value.t = "bool" -> (IF value.n # 0 THEN "True" ELSE "False")
      [] OTHER -> value.s

Str(text) == V("str", 0, text)

\* A formatter that gives repr(value), not str(value), for what is neither a
\* datetime, a float nor None.
format_value_repr(value) ==
    IF value.t = "datetime" THEN Str(Strftime(value.n))
    ELSE IF value.t = "nan" THEN Str("nan")
    ELSE IF value.t = "float"
    THEN IF Abs(value.n) < FloatBoundary * 8
         THEN Str(FormatTwoDecimals(value.n))
         ELSE Str(FormatNoDecimals(value.n))
    ELSE IF value.t = "str" THEN Str("'" \o value.s \o "'")
    ELSE IF value.t # "null" THEN Str(PyStr(value))
    ELSE Str("")

format_value(value) ==
    IF value.t = "datetime" THEN Str(Strftime(value.n))
    ELSE IF value.t = "nan" THEN Str("nan")
    ELSE IF value.t = "float"
    THEN IF Abs(value.n) < FloatBoundary * 8
         THEN Str(FormatTwoDecimals(value.n))
         ELSE Str(FormatNoDecimals(value.n))
    ELSE IF value.t # "null" THEN Str(PyStr(value))
    ELSE Str("")

\* ----------------------------------------------- src/main.py: read_data_sheet
\* ws.values: the rows of cell values
WsValues(f) ==
    [r \in 1..f.nrows |-> [c \in 1..f.ncols |-> CellValue(f, r, c)]]

(* pd.DataFrame(rows, columns=...).values: a column of numbers alone becomes *)
(* int64, or float64 (None becoming NaN) when it holds a float or a None;   *)
(* any other column stays as it is; the array then takes one common type.   *)
ColumnKind(rows, c) ==
    LET types == {rows[r][c].t : r \in 1..Len(rows)}
    IN IF types = {"int"} THEN "int64"
       ELSE IF types \subseteq {"int", "float", "null"} /\ types \cap {"int", "float"} # {}
       THEN "float64"
       ELSE "object"

AsFloat(value) ==
    CASE value.t = "int" -> V("float", 8 * value.n, "")
      [] value.t = "null" -> V("nan", 0, "")
      [] OTHER -> value

DataFrameValues(rows, n_cols) ==
    LET kinds == {ColumnKind(rows, c) : c \in 1..n_cols}
        allFloat == "object" \notin kinds /\ "float64" \in kinds
    IN [r \in 1..Len(rows) |-> [c \in 1..n_cols |->
          IF allFloat \/ ColumnKind(rows, c) = "float64"
          THEN AsFloat(rows[r][c]) ELSE rows[r][c]]]

\* Lines 20-27
BasicWidths(f, n_columns) ==
    LET dims == ColumnDimensions(f)
        declared == [k \in 1..Len(dims) |->
                        (IF dims[k] # 0 THEN dims[k] ELSE BasicDefaultWidth) * BasicWidthScale]
    IN declared \o Repeat(BasicFallbackWidth, n_columns - Len(declared))

(* The workbook is never closed. wb[sheet_name] raises KeyError when the    *)
(* sheet is absent, data[0] raises IndexError when the sheet has no row.    *)
read_data_sheet(f) ==
    IF ~f.hasData
    THEN [err |-> "KeyError", closed |-> FALSE, df |-> [columns |-> <<>>, values |-> <<>>],
          widths |-> <<>>]
    ELSE IF Len(WsValues(f)) = 0
    THEN [err |-> "IndexError", closed |-> FALSE,
          df |-> [columns |-> <<>>, values |-> <<>>], widths |-> <<>>]
    ELSE LET rows == WsValues(f)
             columns == rows[1]
         IN [err |-> "none", closed |-> FALSE,
             df |-> [columns |-> columns,
                     values |-> DataFrameValues(Tail(rows), Len(columns))],
             widths |-> BasicWidths(f, Len(columns))]

\* ---------------------------------------- src/main.py: dataframe_to_styled_pdf
\* Line 51
FormatData(frame) ==
    <<frame.columns>> \o
    [r \in 1..Len(frame.values) |->
        [c \in 1..Len(frame.values[r]) |-> format_value(frame.values[r][c])]]

\* Lines 57-65
BasicBaseRules ==
    <<Rule("BACKGROUND", 0, 0, -1, 0, "#4F81BD"),
      Rule("TEXTCOLOR", 0, 0, -1, 0, "whitesmoke"),
      Rule("ALIGN", 0, 0, -1, -1, "CENTER"),
      Rule("FONTNAME", 0, 0, -1, 0, "Helvetica-Bold"),
      Rule("FONTSIZE", 0, 0, -1, -1, "8"),
      Rule("BOTTOMPADDING", 0, 0, -1, 0, "6"),
      Rule("GRID", 0, 0, -1, -1, "grey")>>

\* Lines 68-70
ShadingRules(n) ==
    Flatten([k \in 1..(n - 1) |->
        IF k % 2 = 0 THEN <<Rule("BACKGROUND", 0, k, -1, k, "#F2F2F2")>> ELSE <<>>])

dataframe_to_styled_pdf(frame, widths, cfg) ==
    LET rows == FormatData(frame)
        table == TableCtor(rows, widths, cfg)
    IN IF table = "ValueError" THEN Outcome("ValueError", widths, <<>>, FALSE)
       ELSE IF table = "degenerate" THEN Outcome("AttributeError", widths, <<>>, FALSE)
       ELSE Outcome("none", widths, BasicBaseRules \o ShadingRules(Len(rows)), TRUE)

\* ------------------------------------------------------------------- state
VARIABLES
    pc,               \* where the run is
    n_files,          \* len(files) of the call under way
    i,                \* 1-based position of the next file the loop reads
    combined_values, combined_styles, combined_merges, col_widths, headers_added,
    open_wbs,         \* positions of the workbooks loaded and not closed
    err,              \* the exception that ended the run, "none" if none
    tstyle,           \* the rules of the TableStyle handed to setStyle
    table_widths,     \* the colWidths handed to Table
    table_made,       \* Table(...) was called
    built,            \* doc.build was reached
    read_log,         \* history: per file read, whether it held DATA, its rows, its columns
    first_file,       \* history: the first workbook read
    probe,            \* a direct call of the renderer: the cell whose style the caller chose
    df,               \* basic variant: the DataFrame of read_data_sheet
    data,             \* basic variant: the rows handed to Table
    raw, out, out2    \* formatter: the value, format_value of it, format_value of that

combVars == <<combined_values, combined_styles, combined_merges, col_widths, headers_added>>
renderVars == <<tstyle, table_widths, table_made, built>>
histVars == <<read_log, first_file>>
basicVars == <<df, data>>
fmtVars == <<raw, out, out2>>
vars == <<pc, n_files, i, combVars, open_wbs, err, renderVars, histVars, probe,
          basicVars, fmtVars>>

SetCombinedInit ==
    /\ combined_values = EmptyCombined.values
    /\ combined_styles = EmptyCombined.styles
    /\ combined_merges = EmptyCombined.merges
    /\ col_widths = EmptyCombined.widths
    /\ headers_added = EmptyCombined.headers_added

NoWorkbook == [hasData |-> FALSE, nrows |-> 0, ncols |-> 0, ndims |-> 0, seed |-> 0]
NoDf == [columns |-> <<>>, values |-> <<>>]
NoStyle == [bg_color |-> "", bold |-> FALSE, italic |-> FALSE, align |-> ""]
NoProbe == [r |-> 0, c |-> 0, style |-> NoStyle]

\* What no entry point has touched yet.
Untouched ==
    /\ err = "none" /\ tstyle = <<>> /\ table_widths = <<>> /\ table_made = FALSE
    /\ built = FALSE /\ open_wbs = {} /\ read_log = <<>> /\ first_file = NoWorkbook
    /\ df = NoDf /\ data = <<>>
    /\ raw = NoneValue /\ out = NoneValue /\ out2 = NoneValue

Combined ==
    [values |-> combined_values, styles |-> combined_styles, merges |-> combined_merges,
     widths |-> col_widths, headers_added |-> headers_added]

SetCombined(acc) ==
    /\ combined_values' = acc.values
    /\ combined_styles' = acc.styles
    /\ combined_merges' = acc.merges
    /\ col_widths' = acc.widths
    /\ headers_added' = acc.headers_added

LogEntry(f) == [hasData |-> f.hasData, nrows |-> f.nrows, ncols |-> f.ncols]

\* ----------------------- src/test.py: process_xlsm_files_fully_styled (Spec)
\* A call with a list of n_files paths; lines 63-67 have run.
Init ==
    /\ pc = "combine"
    /\ n_files \in 0..MaxFiles
    /\ i = 1
    /\ SetCombinedInit
    /\ probe = NoProbe
    /\ Untouched

\* One pass of the loop of combine_multiple_xlsm (lines 69-81): the file at
\* position i holds workbook f.
CombineIter ==
    /\ pc = "combine"
    /\ i <= n_files
    /\ \E f \in Workbooks :
        LET snap == read_data_with_full_style(f)
        IN /\ read_log' = Append(read_log, LogEntry(f))
           /\ first_file' = IF i = 1 THEN f ELSE first_file
           /\ open_wbs' = IF snap.closed THEN open_wbs ELSE open_wbs \cup {i}
           /\ IF snap.raised
              THEN /\ pc' = "raised"
                   /\ err' = "ValueError"
                   /\ i' = i
                   /\ UNCHANGED combVars
              ELSE /\ pc' = "combine"
                   /\ err' = err
                   /\ i' = i + 1
                   /\ SetCombined(combine_step(Combined, snap))
    /\ UNCHANGED <<n_files, renderVars, probe, basicVars, fmtVars>>

\* The list is exhausted: combine_multiple_xlsm returns (line 83).
CombineReturn ==
    /\ pc = "combine"
    /\ i > n_files
    /\ pc' = "render"
    /\ UNCHANGED <<n_files, i, combVars, open_wbs, err, renderVars, histVars, probe,
                   basicVars, fmtVars>>

\* generate_full_styled_pdf on the table held in the combined_* variables
\* (line 145, or a caller's own table), under one of reportlab's configurations.
GenerateFullStyledPdf ==
    /\ pc = "render"
    /\ \E cfg \in RlConfigs :
        LET o == generate_full_styled_pdf(combined_values, combined_styles,
                                          combined_merges, col_widths, cfg)
        IN /\ err' = o.err
           /\ tstyle' = o.tstyle
           /\ table_widths' = o.colWidths
           /\ table_made' = TRUE
           /\ built' = o.built
           /\ pc' = IF o.err = "none" THEN "done" ELSE "raised"
    /\ UNCHANGED <<n_files, i, combVars, open_wbs, histVars, probe, basicVars, fmtVars>>

Next == CombineIter \/ CombineReturn \/ GenerateFullStyledPdf

Spec == Init /\ [][Next]_vars

\* ------------------- src/test.py: generate_full_styled_pdf called directly
\* The styles a caller may hand over for one cell: no colour, colours that
\* parse, and texts that do not.
RenderStyles ==
    [bg_color : {"", "#FF0000", "255", "#GG0000", "red", "#"},
     bold : BOOLEAN, italic : BOOLEAN, align : {"LEFT", "CENTER", "JUSTIFY"}]

\* A caller's table: the snapshot of a sheet with rows, one cell's style
\* replaced by a style of the caller's.
InitRender ==
    /\ pc = "render"
    /\ n_files = 0
    /\ i = 1
    /\ headers_added = FALSE
    /\ \E f \in Workbooks :
        /\ f.nrows >= 1
        /\ \E r \in 1..f.nrows, c \in 1..f.ncols, s \in RenderStyles :
            LET snap == read_data_with_full_style(f)
            IN /\ combined_values = snap.values
               /\ combined_styles = [snap.styles EXCEPT ![r][c] = s]
               /\ combined_merges = snap.merges
               /\ col_widths = snap.widths
               /\ probe = [r |-> r, c |-> c, style |-> s]
    /\ Untouched

SpecRender == InitRender /\ [][GenerateFullStyledPdf]_vars

\* ------------------------------------------- src/main.py: __main__ (SpecBasic)
BasicWorkbooks ==
    Workbooks \cup {[f EXCEPT !.seed = sd] : f \in {w \in Workbooks : w.nrows >= 2},
                                             sd \in 0..MaxSeed}

InitBasic ==
    /\ pc = "read"
    /\ n_files = 1
    /\ i = 1
    /\ SetCombinedInit
    /\ probe = NoProbe
    /\ Untouched

\* read_data_sheet(xlsm_path, "DATA") (line 83) on a file that holds workbook f
ReadDataSheet ==
    /\ pc = "read"
    /\ \E f \in BasicWorkbooks :
        LET res == read_data_sheet(f)
        IN /\ first_file' = f
           /\ read_log' = Append(read_log, LogEntry(f))
           /\ open_wbs' = IF res.closed THEN open_wbs ELSE open_wbs \cup {i}
           /\ err' = res.err
           /\ df' = res.df
           /\ col_widths' = res.widths
           /\ pc' = IF res.err = "none" THEN "export" ELSE "raised"
    /\ UNCHANGED <<n_files, i, combined_values, combined_styles, combined_merges,
                   headers_added, renderVars, probe, data, fmtVars>>

\* dataframe_to_styled_pdf(df, pdf_path, col_widths=widths) (line 84)
DataframeToStyledPdf ==
    /\ pc = "export"
    /\ \E cfg \in RlConfigs :
        LET o == dataframe_to_styled_pdf(df, col_widths, cfg)
        IN /\ data' = FormatData(df)
           /\ err' = o.err
           /\ tstyle' = o.tstyle
           /\ table_widths' = o.colWidths
           /\ table_made' = TRUE
           /\ built' = o.built
           /\ pc' = IF o.err = "none" THEN "done" ELSE "raised"
    /\ UNCHANGED <<n_files, i, combVars, open_wbs, histVars, probe, df, fmtVars>>

NextBasic == ReadDataSheet \/ DataframeToStyledPdf

SpecBasic == InitBasic /\ [][NextBasic]_vars

\* --------------------------------------- src/main.py: format_value (SpecFormat)
FloatBases == {0, 999, 1234567, FloatBoundary - 1, FloatBoundary, 12345678}

RawValues ==
    {V("float", sg * (8 * b + k), "") : sg \in {1, -1}, b \in FloatBases, k \in 0..7}
    \cup {V("int", n, "") : n \in {0, 7, -1234567, FloatBoundary}}
    \cup {V("bool", n, "") : n \in {0, 1}}
    \cup {V("str", 0, t) : t \in {"", "abc", "1,234.50", "None", "2024-01-05"}}
    \cup {V("datetime", n, "") : n \in {19991231, 20240105}}
    \cup {NoneValue}

InitFormat ==
    /\ pc = "format"
    /\ n_files = 0
    /\ i = 1
    /\ SetCombinedInit
    /\ probe = NoProbe
    /\ err = "none" /\ tstyle = <<>> /\ table_widths = <<>> /\ table_made = FALSE
    /\ built = FALSE /\ open_wbs = {} /\ read_log = <<>> /\ first_file = NoWorkbook
    /\ df = NoDf /\ data = <<>>
    /\ raw \in RawValues /\ out = NoneValue /\ out2 = NoneValue

\* format_value(raw)
FormatValue ==
    /\ pc = "format"
    /\ out' = format_value(raw)
    /\ pc' = "formatted"
    /\ UNCHANGED <<n_files, i, combVars, open_wbs, err, renderVars, histVars, probe,
                   basicVars, raw, out2>>

\* format_value applied to its own output
FormatAgain ==
    /\ pc = "formatted"
    /\ out2' = format_value(out)
    /\ pc' = "reformatted"
    /\ UNCHANGED <<n_files, i, combVars, open_wbs, err, renderVars, histVars, probe,
                   basicVars, raw, out>>

NextFormat == FormatValue \/ FormatAgain

SpecFormat == InitFormat /\ [][NextFormat]_vars

\* ------------------------------------------------------------ the claims
\* combine_multiple_xlsm has returned its four results.
CombineReturned == pc = "render" \/ table_made

LoggedRows == [k \in 1..Len(read_log) |-> read_log[k].nrows]

\* C1 as stated: after combining N >= 1 files with r_1, ..., r_N rows the
\* combined table has r_1 + (r_2 - 1) + ... + (r_N - 1) rows, zero-row sheets
\* included.
C1_RowCountAsStated ==
    (CombineReturned /\ n_files >= 1) =>
        Len(combined_values) =
            LoggedRows[1] + SumSeq([k \in 1..(n_files - 1) |-> LoggedRows[k + 1] - 1])

\* C1 amended: a later file contributes max(r_i - 1, 0) rows, so the combined
\* table has r_1 + sum over i = 2..N of max(r_i - 1, 0) rows.
C1_RowCount ==
    (CombineReturned /\ n_files >= 1) =>
        Len(combined_values) =
            LoggedRows[1]
            + SumSeq([k \in 1..(n_files - 1) |-> Max(LoggedRows[k + 1] - 1, 0)])

C1_Witness ==
    /\ CombineReturned /\ n_files = 3
    /\ LoggedRows = <<2, 0, 2>>
    /\ Len(combined_values) = 3

\* C2: the column widths combine_multiple_xlsm returns for a non-empty list
\* are the widths read from the first file, whatever the later files declare.
C2_WidthsOfFirstFile ==
    (CombineReturned /\ n_files >= 1) =>
        col_widths = read_data_with_full_style(first_file).widths

C2_Witness ==
    /\ CombineReturned /\ n_files >= 2
    /\ read_log[1].ncols = 1 /\ read_log[2].ncols = 2 /\ read_log[2].nrows = 2
    /\ first_file.ndims = 0
    /\ col_widths = <<FullFallbackWidth>>

SheetMissing == \E k \in 1..Len(read_log) : ~read_log[k].hasData

\* C3: once a file of the list, at any position, lacks the DATA sheet, the run
\* has ended with the sheet-not-found error, and neither Table nor doc.build
\* is ever reached.
C3_NoPdfAfterMissingSheet ==
    SheetMissing =>
        /\ pc = "raised" /\ err = "ValueError"
        /\ ~table_made /\ ~built /\ tstyle = <<>>

C3_Witness ==
    /\ SheetMissing /\ Len(read_log) = 3
    /\ read_log[1].hasData /\ read_log[1].nrows = 2 /\ read_log[2].hasData
    /\ Len(combined_values) >= 2
    /\ pc = "raised"

\* C4: between the calls of a sheet reader no workbook it opened is still
\* open, whether the reader returned or raised.
C4_WorkbooksClosed == open_wbs = {}

\* C6: combining an empty list gives an empty table (no value row, style row,
\* merge range or column width), and generate_full_styled_pdf on it completes
\* without raising.
C6_EmptyListRenders ==
    (n_files = 0 /\ CombineReturned) =>
        /\ combined_values = <<>> /\ combined_styles = <<>>
        /\ combined_merges = <<>> /\ col_widths = <<>>
        /\ (table_made => (err = "none" /\ built))

SameShape(values, styles) ==
    /\ Len(values) = Len(styles)
    /\ \A k \in 1..Len(values) : Len(styles[k]) = Len(values[k])

\* C7: after every pass of the combiner loop and in its result the combined
\* values and the combined styles have the same number of rows, and row k of
\* the styles is as long as row k of the values; so it is for what
\* read_data_with_full_style returns for the workbook read first, which may
\* be any workbook.
C7_ValuesAndStylesSameShape ==
    /\ SameShape(combined_values, combined_styles)
    /\ Len(read_log) >= 1 =>
        SameShape(read_data_with_full_style(first_file).values,
                  read_data_with_full_style(first_file).styles)

C7_Witness ==
    /\ pc = "combine" /\ Len(read_log) = 2 /\ i = 3
    /\ Len(combined_values) = 3 /\ Len(combined_styles) = 3
    /\ Len(combined_styles[3]) = 2

Rectangular(values) == \A k \in 1..Len(values) : Len(values[k]) = Len(values[1])

\* C8 as stated: for any input files every row of the combined table is as
\* long as row 0, and the renderer's per-cell loop never indexes outside a row.
C8_RectangularAsStated ==
    CombineReturned => (Rectangular(combined_values) /\ err # "IndexError")

\* The sheets that hold rows all have the same number of columns.
SameColumnCounts ==
    \A j, k \in 1..Len(read_log) :
        (read_log[j].nrows >= 1 /\ read_log[k].nrows >= 1) =>
            read_log[j].ncols = read_log[k].ncols

\* C8 amended: when the non-empty DATA sheets of the input files all have the
\* same number of columns, every row of the combined table is as long as row 0,
\* and the renderer's per-cell loop never indexes outside a row.
C8_Rectangular ==
    (CombineReturned /\ SameColumnCounts) =>
        (Rectangular(combined_values) /\ err # "IndexError")

C8_Witness ==
    /\ pc = "done" /\ n_files = 3
    /\ SameColumnCounts
    /\ Len(combined_values) = 4
    /\ \A k \in 1..4 : Len(combined_values[k]) = 2

BadColor(style) == style.bg_color # "" /\ ~HexColorParses(style.bg_color)

RulesOf(rules) == {rules[k] : k \in 1..Len(rules)}

\* C5: when a cell's bg_color is present and does not parse, rendering is not
\* aborted: doc.build is reached, the grid rule is kept, the cell gets no
\* BACKGROUND rule but keeps its font and alignment rules, and the rules are
\* exactly those of the same table with that cell's bg_color absent.
C5_BadColorSkipsOnlyBackground ==
    (table_made /\ probe.r >= 1 /\ BadColor(probe.style)) =>
        LET c == probe.c - 1
            r == probe.r - 1
            absent == [probe.style EXCEPT !.bg_color = ""]
        IN /\ err = "none" /\ built /\ pc = "done"
           /\ tstyle[1] = GridRule
           /\ ~\E k \in 1..Len(tstyle) :
                tstyle[k].cmd = "BACKGROUND" /\ tstyle[k].c1 = c /\ tstyle[k].r1 = r
                    /\ tstyle[k].c2 = c /\ tstyle[k].r2 = r
           /\ RulesOf(FontRules(probe.style, c, r)) \subseteq RulesOf(tstyle)
           /\ RulesOf(AlignRules(probe.style, c, r)) \subseteq RulesOf(tstyle)
           /\ tstyle = <<GridRule>> \o SpanRules(combined_merges)
                \o PerCellRules([combined_styles EXCEPT ![probe.r][probe.c] = absent],
                                Len(combined_values), Len(combined_values[1]))
                \o HeaderRules

C5_Witness ==
    /\ table_made /\ built
    /\ probe.r = 2 /\ probe.c = 2 /\ probe.style.bg_color = "#GG0000"
    /\ probe.style.bold /\ probe.style.align = "CENTER"
    /\ Rule("FONTNAME", 1, 1, 1, 1, "Helvetica-Bold") \in RulesOf(tstyle)
    /\ Rule("BACKGROUND", 0, 1, 0, 1, "#FFFF00") \in RulesOf(tstyle)

\* C9: format_value gives a string for every supported raw value, and
\* formatting its output again gives that output back unchanged.
C9_FormatValueIdempotent ==
    /\ (pc \in {"formatted", "reformatted"} => out.t = "str")
    /\ (pc = "reformatted" => out2 = out)

C9_Witness ==
    /\ pc = "reformatted"
    /\ raw = V("float", 8 * FloatBoundary + 4, "")
    /\ out = Str("10,000,000")
    /\ out2 = Str("10,000,000")

\* C10: the list of column widths handed to Table has exactly as many entries
\* as the table has columns (basic variant: read_data_sheet, then
\* dataframe_to_styled_pdf).
C10_WidthsMatchColumns ==
    table_made => Len(table_widths) = Len(data[1])

====
